---- MODULE Spec2Model ----
(***************************************************************************)
(* A model of auditd/libaudit.c: the user-space side of the kernel audit   *)
(* netlink protocol (audit_send, get_ack, audit_get_reply,                 *)
(* set_internal_fields, audit_set_pid, audit_set_logsplit).                *)
(*                                                                         *)
(* One caller thread runs one library call at a time.  A call advances     *)
(* from syscall to syscall: every action is the code that runs between two *)
(* syscalls, so the kernel (action KernelQueue) can queue datagrams while  *)
(* the call is blocked.  The per-call bookkeeping in `hist` records what   *)
(* the call did; the modelled code never reads it (only the bound on EINTR *)
(* results does).                                                          *)
(*                                                                         *)
(* The specifications differ by what is at the other end of the socket and *)
(* by who calls: Spec (every call, a peer that queues anything), SpecRecv  *)
(* (audit_get_reply alone), SpecRejected (datagrams audit_get_reply        *)
(* rejects), SpecKernel (the audit kernel, which acknowledges every        *)
(* request in order), SpecLive (the same with the assumptions under which  *)
(* blocked syscalls return) and SpecThreads (two threads in audit_send,    *)
(* every access to the shared counter a step of its own).                  *)
(***************************************************************************)
EXTENDS Integers, Sequences, FiniteSets, TLC

(***************************************************************************)
(* Bounds of the model.                                                    *)
(***************************************************************************)
MaxDgrams == 2      \* datagrams queued on the socket in one behaviour
MaxCalls == 2       \* library calls made in one behaviour
MaxIntr == 1        \* EINTR results delivered to one library call

(***************************************************************************)
(* errno values (errno.h) and protocol constants (linux/netlink.h,         *)
(* linux/audit.h, libaudit.h).                                             *)
(***************************************************************************)
EINTR == 4
EBADF == 9
EAGAIN == 11
EACCES == 13
EINVAL == 22
EFBIG == 27
EBADE == 52
EPROTO == 71
ENOBUFS == 105

NLMSG_ERROR == 2
AUDIT_GET == 1000
AUDIT_SET == 1001
AUDIT_SIGNAL_INFO == 1010
AUDIT_LIST_RULES == 1013
AUDIT_LOGSPLIT_SET == 1030
AUDIT_FIRST_USER_MSG == 1100
AUDIT_STATUS_PID == 4
AUDIT_LOGSPLIT_OFF == 0
AUDIT_LOGSPLIT_ON == 1
NLM_F_REQUEST == 1
NLM_F_ACK == 4
MSG_PEEK == 2
MAX_AUDIT_MESSAGE_LENGTH == 8970
NLMSG_HDRLEN == 16          \* sizeof(struct nlmsghdr), already 4-aligned
NLMSG_ALIGNTO == 4
SizeofNladdr == 12          \* sizeof(struct sockaddr_nl)
SizeofRepMsg == 8988        \* sizeof(struct audit_message): 16 + 8970, padded to 4
SizeofStatus == 32          \* sizeof(struct audit_status)
SizeofLogsplitStatus == 4   \* sizeof(struct audit_logsplit_status)
SizeofNlmsgerr == 20        \* sizeof(struct nlmsgerr): int error + request header

GET_REPLY_BLOCKING == 0
GET_REPLY_NONBLOCKING == 1
WAIT_NO == 0
WAIT_YES == 1

(***************************************************************************)
(* Fixed-width integers.  TLC's integers are 32-bit signed, so a uint32_t  *)
(* is kept as its two 16-bit halves [hi, lo] and the arithmetic carries    *)
(* between them; everything wraps modulo 2^32 as unsigned int does.        *)
(***************************************************************************)
W16 == 65536

U32(h, l) == [hi |-> h, lo |-> l]

\* (uint32_t) n for an int n
ToU32(n) == [hi |-> ((n - (n % W16)) \div W16) % W16, lo |-> n % W16]

\* a + c modulo 2^32, for a small non-negative int c
U32Add(a, c) ==
    [hi |-> (a.hi + ((a.lo + c) \div W16)) % W16, lo |-> (a.lo + c) % W16]

\* a > n for a non-negative int n < 2^16
U32Gt(a, n) == a.hi > 0 \/ a.lo > n

\* (int16_t) n, as gcc and clang convert: modulo 2^16
ToInt16(n) == ((n + 32768) % W16) - 32768

\* (int16_t) u for a uint32_t u
U32ToInt16(u) == ToInt16(u.lo)

(***************************************************************************)
(* linux/netlink.h macros, on unsigned int.                                *)
(***************************************************************************)
\* NLMSG_ALIGN(len) == ((len) + NLMSG_ALIGNTO - 1) & ~(NLMSG_ALIGNTO - 1)
NLMSG_ALIGN(len) ==
    LET s == U32Add(len, NLMSG_ALIGNTO - 1)
    IN  [hi |-> s.hi, lo |-> s.lo - (s.lo % NLMSG_ALIGNTO)]

\* NLMSG_SPACE(len) == NLMSG_ALIGN((len) + NLMSG_HDRLEN)
NLMSG_SPACE(size) == NLMSG_ALIGN(U32Add(size, NLMSG_HDRLEN))

\* NLMSG_OK(nlh, len): len >= sizeof(struct nlmsghdr) &&
\*   nlh->nlmsg_len >= sizeof(struct nlmsghdr) && nlh->nlmsg_len <= len
NLMSG_OK(nlmsg_len, len) ==
    /\ len >= NLMSG_HDRLEN
    /\ nlmsg_len >= NLMSG_HDRLEN
    /\ nlmsg_len <= len

(***************************************************************************)
(* Datagrams of the socket receive queue.  A datagram is what one recvfrom *)
(* leaves in the caller's hands: the sender address (nl_pid, address       *)
(* length), the byte count returned, and the buffer contents read through  *)
(* the netlink header (nlmsg_len, nlmsg_type, nlmsg_seq) and through       *)
(* struct nlmsgerr (error).                                                *)
(***************************************************************************)
Dgram(p, a, l, n, t, s, e) ==
    [pid |-> p, alen |-> a, len |-> l, nlen |-> n, type |-> t, seq |-> s, err |-> e]

NoMsg == Dgram(0, 0, -1, 0, 0, 0, 0)     \* a buffer no recvfrom has written

AckLen == NLMSG_HDRLEN + SizeofNlmsgerr

\* acks as the kernel builds them (netlink_ack)
Acks == {Dgram(0, SizeofNladdr, AckLen, AckLen, NLMSG_ERROR, 1, e) : e \in {0, -EACCES}}
\* replies and events of the other types, one of them filling the buffer
Events ==
    {Dgram(0, SizeofNladdr, 48, 48, AUDIT_GET, 0, 0),
     Dgram(0, SizeofNladdr, 18, 18, AUDIT_FIRST_USER_MSG, 0, 0),
     Dgram(0, SizeofNladdr, SizeofRepMsg, SizeofRepMsg, AUDIT_LIST_RULES, 0, 0)}
\* frames from the kernel address whose byte count and nlmsg_len disagree
Malformed ==
    {Dgram(0, SizeofNladdr, 8, AckLen, NLMSG_ERROR, 1, 0),
     Dgram(0, SizeofNladdr, AckLen, 8, AUDIT_GET, 1, 0),
     Dgram(0, SizeofNladdr, AckLen, 40, NLMSG_ERROR, 1, 0),
     Dgram(0, SizeofNladdr, SizeofRepMsg, 9000, AUDIT_SIGNAL_INFO, 1, 0)}
\* datagrams of another sender, and with an address of another size
Spoofed ==
    {Dgram(77, SizeofNladdr, AckLen, AckLen, NLMSG_ERROR, 1, 0),
     Dgram(77, SizeofNladdr, 8, AckLen, AUDIT_GET, 0, 0)}
BadAddr ==
    {Dgram(0, 16, AckLen, AckLen, NLMSG_ERROR, 1, 0),
     Dgram(77, 16, 48, 48, AUDIT_GET, 0, 0)}

\* the datagrams queued while only audit_get_reply is called
Datagrams == Acks \cup Events \cup Malformed \cup Spoofed \cup BadAddr

\* the datagrams queued while every kind of call runs: acks that accept and
\* reject, with sequence number 1 or 2, a reply of another type and a
\* datagram of another sender
CoreDatagrams ==
    {Dgram(0, SizeofNladdr, AckLen, AckLen, NLMSG_ERROR, 1, 0),
     Dgram(0, SizeofNladdr, AckLen, AckLen, NLMSG_ERROR, 1, -EACCES),
     Dgram(0, SizeofNladdr, AckLen, AckLen, NLMSG_ERROR, 2, EACCES),
     Dgram(0, SizeofNladdr, 48, 48, AUDIT_GET, 0, 0),
     Dgram(77, SizeofNladdr, AckLen, AckLen, NLMSG_ERROR, 1, 0)}

(***************************************************************************)
(* Inputs of the calls.                                                    *)
(***************************************************************************)
OsErrors == {ENOBUFS}
WaitModes == {WAIT_NO, WAIT_YES}
\* (fd, size, data given) of the direct audit_send calls: payload sizes
\* within the limit, at it, just over it, and near 2^32
SendArgs ==
    {<<-1, U32(0, SizeofStatus), TRUE>>, <<-1, U32(65535, 65535), FALSE>>,
     <<3, U32(0, 0), FALSE>>, <<3, U32(0, SizeofStatus), TRUE>>,
     <<3, U32(0, 8952), TRUE>>, <<3, U32(0, 8953), TRUE>>,
     <<3, U32(65535, 65516), FALSE>>, <<3, U32(65535, 65517), FALSE>>,
     <<3, U32(65535, 65535), TRUE>>}
SendTypes == {AUDIT_SET}
\* (fd, pid, wmode) of audit_set_pid
SetPidArgs == {<<fd, 1234, w>> : fd \in {-1, 3}, w \in WaitModes}
\* (fd, enabled, wmode) of audit_set_logsplit
LogsplitArgs ==
    {<<fd, 2, w>> : fd \in {-1, 3}, w \in WaitModes}
    \cup {<<3, -1, WAIT_YES>>, <<3, AUDIT_LOGSPLIT_OFF, WAIT_NO>>,
          <<3, AUDIT_LOGSPLIT_ON, WAIT_YES>>, <<-1, AUDIT_LOGSPLIT_ON, WAIT_NO>>}
\* (fd, block, peek) of the user's audit_get_reply calls
GetReplyArgs ==
    {<<3, b, pk>> : b \in {GET_REPLY_BLOCKING, GET_REPLY_NONBLOCKING},
                    pk \in {0, MSG_PEEK}}
    \cup {<<-1, GET_REPLY_NONBLOCKING, 0>>}
\* the counter in a fresh process, and after 32767 validated sends
StartSequences == {0, 32767}

(***************************************************************************)
(* State.                                                                  *)
(***************************************************************************)
VARIABLES
    sequence,   \* static int16_t sequence of audit_send
    queue,      \* the socket's receive queue
    pc,         \* where the current call stands
    call,       \* the current call and its arguments
    req,        \* audit_send's frame header
    rep,        \* the struct audit_reply local to get_ack / the control call
    urep,       \* the struct audit_reply the user passes to audit_get_reply
    ret,        \* the value the last call returned
    ncalls,     \* calls made so far
    nqueued,    \* datagrams queued so far
    hist,       \* what the current call has done (bookkeeping only)
    kernel,     \* the peer of the socket when it is the audit kernel
    thr         \* the callers of audit_send when there are several threads

vars ==
    <<sequence, queue, pc, call, req, rep, urep, ret, ncalls, nqueued, hist,
      kernel, thr>>

Uninit == [view |-> "uninit", type |-> 0, len |-> 0, msg |-> NoMsg]
NoReq == [len |-> U32(0, 0), type |-> 0, flags |-> 0, seq |-> U32(0, 0), data |-> <<>>]
NoCall ==
    [op |-> "none", fd |-> 0, type |-> 0, size |-> U32(0, 0), data |-> FALSE,
     payload |-> <<>>, pid |-> 0, enabled |-> 0, wmode |-> 0, block |-> 0, peek |-> 0]

\* the audit kernel as the peer of the socket: the requests it has received,
\* each with the thread that sent it and whether that call ran alone, and
\* how many of them it has acknowledged
NoKernel == [reqs |-> <<>>, acked |-> 0]

\* the threads that call audit_send when several do
Threads == {1, 2}

\* a thread that is not in audit_send
IdleThread ==
    [pc |-> "idle",         \* where the thread stands in audit_send
     tmp |-> 0,             \* the counter as ++sequence loaded it
     frame |-> U32(0, 0),   \* req.nlh.nlmsg_seq
     arg |-> 0,             \* the seq argument of get_ack
     msg |-> NoMsg,         \* rep.msg of get_ack
     ackrc |-> 0,           \* get_ack's return value
     rc |-> 0,              \* audit_send's rc
     sent |-> FALSE,        \* the frame was transmitted whole (bookkeeping)
     took |-> 0,            \* the request whose ack get_ack removed (bookkeeping)
     warned |-> FALSE,      \* the skew warning was logged (bookkeeping)
     alone |-> TRUE]        \* no other thread was in audit_send meanwhile (bookkeeping)

NoThreads == [t \in Threads |-> IdleThread]

NewHist(s) ==
    [seq0 |-> s,            \* the counter when the call began
     eintr |-> 0,           \* syscalls that ended on EINTR
     sendto |-> 0,          \* sendto syscalls that ended otherwise
     tx |-> "none",         \* how the last sendto ended: full, partial, oserr
     txerrno |-> 0,         \* errno of a failed sendto
     frame |-> NoReq,       \* the frame handed to sendto
     recvfrom |-> 0,        \* recvfrom syscalls that ended otherwise
     deq |-> 0,             \* datagrams removed from the queue
     ack |-> "none",        \* get_ack: none (not run), peek, done
     ackrc |-> 0,           \* get_ack's return value
     ackdeq |-> 0,          \* datagrams get_ack removed from the queue
     peeked |-> NoMsg,      \* the datagram get_ack's peek returned
     drains |-> 0,          \* audit_get_reply calls made after audit_send
     got |-> NoMsg,         \* the datagram the last recvfrom returned
     grc |-> 0,             \* the last audit_get_reply's return value
     eagain |-> FALSE,      \* the last audit_get_reply ended on EAGAIN
     sendrc |-> 0,          \* audit_send's return value
     sent |-> FALSE,        \* audit_send returned
     warned |-> FALSE]      \* the sequence skew warning was logged

\* the counter, the socket and the single caller before any call
InitCaller ==
    /\ sequence \in StartSequences
    /\ queue = <<>>
    /\ pc = "idle"
    /\ call = NoCall
    /\ req = NoReq
    /\ rep = Uninit
    /\ urep = Uninit
    /\ ret = 0
    /\ ncalls = 0
    /\ nqueued = 0
    /\ hist = NewHist(0)
    /\ kernel = NoKernel

\* one caller: no other thread runs audit_send
Init == InitCaller /\ thr = <<>>

\* the threads of the multi-threaded caller, none of them in audit_send yet
InitThreads == InitCaller /\ thr = NoThreads

(***************************************************************************)
(* set_internal_fields: decode rep->msg into the typed fields.  The result *)
(* is the return value and the reply as the function leaves it.            *)
(***************************************************************************)
ViewOf(type) ==
    IF type = NLMSG_ERROR THEN "error"
    ELSE IF type = AUDIT_GET THEN "status"
    ELSE IF type = AUDIT_LIST_RULES THEN "ruledata"
    ELSE IF type = AUDIT_SIGNAL_INFO THEN "signal_info"
    ELSE "message"

\* the decoder comparing the frame's nlmsg_len, not the byte count, with
\* the buffer size
set_internal_fields_TestsFrameLen(r, len) ==
    LET r1 == [view |-> "null", type |-> r.msg.type, len |-> r.msg.nlen, msg |-> r.msg]
    IN  IF ~NLMSG_OK(r.msg.nlen, len)
        THEN [rc |-> IF r1.len = SizeofRepMsg THEN -EFBIG ELSE -EBADE, rep |-> r1]
        ELSE [rc |-> 0, rep |-> [r1 EXCEPT !.view = ViewOf(r1.type)]]

set_internal_fields(r, len) ==
    LET r1 == [view |-> "null", type |-> r.msg.type, len |-> r.msg.nlen, msg |-> r.msg]
    IN  IF ~NLMSG_OK(r.msg.nlen, len)
        THEN [rc |-> IF len = SizeofRepMsg THEN -EFBIG ELSE -EBADE, rep |-> r1]
        ELSE [rc |-> 0, rep |-> [r1 EXCEPT !.view = ViewOf(r1.type)]]

(***************************************************************************)
(* audit_get_reply after recvfrom returned datagram d into rep->msg: the   *)
(* sender checks, then set_internal_fields.                                *)
(***************************************************************************)
\* the checks without the test of nladdr.nl_pid
GetReplyChecks_NoPidCheck(r, d) ==
    LET r0 == [r EXCEPT !.msg = d]
    IN  IF d.alen # SizeofNladdr THEN [rc |-> -EPROTO, rep |-> r0]
        ELSE set_internal_fields(r0, d.len)

GetReplyChecks(r, d) ==
    LET r0 == [r EXCEPT !.msg = d]
    IN  IF d.alen # SizeofNladdr THEN [rc |-> -EPROTO, rep |-> r0]
        ELSE IF d.pid # 0 THEN [rc |-> -EINVAL, rep |-> r0]
        ELSE set_internal_fields(r0, d.len)

\* flags = (block == GET_REPLY_NONBLOCKING) ? MSG_DONTWAIT : 0; flags |= peek
DontWait(block) == block = GET_REPLY_NONBLOCKING

\* recvfrom taking MSG_PEEK as no flag at all
Peeks_Never(peek) == FALSE

Peeks(peek) == peek = MSG_PEEK

(***************************************************************************)
(* audit_send: validation and framing, up to the first sendto.             *)
(***************************************************************************)
\* the checks of lines 162-170: 0 when the call goes on
SendValidate(fd, size) ==
    IF fd < 0 THEN -EBADF
    ELSE IF U32Gt(NLMSG_SPACE(size), MAX_AUDIT_MESSAGE_LENGTH) THEN -EINVAL
    ELSE 0

\* the counter read without being advanced
NextSequence_Stuck(s) == s

\* ++sequence on int16_t
NextSequence(s) == ToInt16(s + 1)

\* the frame as lines 154-156, 173-174 and 188 fill it; payload is what
\* data points to, copied only if (size && data)
Frame(type, size, s, data, payload) ==
    [len |-> NLMSG_SPACE(size), type |-> type % W16,
     flags |-> NLM_F_REQUEST + NLM_F_ACK, seq |-> ToU32(s),
     data |-> IF U32Gt(size, 0) /\ data THEN payload ELSE <<>>]

\* memcpy(NLMSG_DATA(&req.nlh), data, size) writes past req.data
CopyOverflows(size, data) ==
    data /\ U32Gt(size, 0) /\ U32Gt(size, MAX_AUDIT_MESSAGE_LENGTH)

\* lines 197-205: the result of the send loop, rc the last sendto result and
\* errno its error; 0 stands for "all bytes sent, go on to get_ack"
SendResult(rc, errno, nlmsg_len) ==
    IF ToU32(rc) # nlmsg_len THEN -EPROTO
    ELSE IF rc < 0 THEN -errno
    ELSE 0

\* line 211
SendReturn(ackrc, s) == IF ackrc = 0 THEN s ELSE ackrc

\* audit_send returning without the test of lines 215-218
RollOver_NoReset(s) == s

\* lines 215-218
RollOver(s) == IF s < 0 THEN 0 ELSE s

(***************************************************************************)
(* get_ack after its (second) receive: lines 114-124.                      *)
(***************************************************************************)
\* rep.error->error, read when rep.type == NLMSG_ERROR
AckError(r) == IF r.msg.err # 0 THEN -(r.msg.err) ELSE 0

SeqSkew(r, s) == ToInt16(r.msg.seq) # s

\* get_ack treating a sequence number other than seq as a failed ack
AckOutcome_SkewIsError(d, seq) ==
    LET chk == GetReplyChecks(Uninit, d)
    IN  IF chk.rc < 0
        THEN [rc |-> chk.rc, consume |-> FALSE, warned |-> FALSE]
        ELSE IF SeqSkew(chk.rep, seq)
        THEN [rc |-> -EPROTO, consume |-> chk.rep.type = NLMSG_ERROR, warned |-> TRUE]
        ELSE IF chk.rep.type = NLMSG_ERROR /\ AckError(chk.rep) # 0
        THEN [rc |-> AckError(chk.rep), consume |-> TRUE, warned |-> FALSE]
        ELSE [rc |-> 0, consume |-> chk.rep.type = NLMSG_ERROR, warned |-> FALSE]

\* get_ack(fd, seq) as a whole (lines 107-124) when its peek is handed the
\* datagram d: the return value, whether the consuming receive of line 113
\* is made, and whether the skew warning is logged
AckOutcome(d, seq) ==
    LET chk == GetReplyChecks(Uninit, d)
    IN  IF chk.rc < 0
        THEN [rc |-> chk.rc, consume |-> FALSE, warned |-> FALSE]
        ELSE IF chk.rep.type = NLMSG_ERROR /\ AckError(chk.rep) # 0
        THEN [rc |-> AckError(chk.rep), consume |-> TRUE, warned |-> FALSE]
        ELSE [rc |-> 0, consume |-> chk.rep.type = NLMSG_ERROR,
              warned |-> SeqSkew(chk.rep, seq)]

\* the check written as an upper bound alone
LogsplitValid_NoLowerBound(enabled) == enabled <= AUDIT_LOGSPLIT_ON

\* audit_set_logsplit's argument check, lines 341-345
LogsplitValid(enabled) ==
    ~(enabled # AUDIT_LOGSPLIT_OFF /\ enabled # AUDIT_LOGSPLIT_ON)

(***************************************************************************)
(* The callers of audit_send after it returned rc, with h the bookkeeping  *)
(* to keep: audit_set_pid lines 241-261, audit_set_logsplit lines 350-359. *)
(* A direct caller of audit_send just gets rc.                             *)
(***************************************************************************)
AfterSend(c, rc, h) ==
    /\ rep' = Uninit
    /\ IF c.op = "audit_send" \/ rc < 0
       THEN pc' = "done" /\ ret' = rc /\ hist' = h
       ELSE IF c.wmode # WAIT_NO
       THEN pc' = "drain" /\ ret' = ret /\ hist' = [h EXCEPT !.drains = @ + 1]
       ELSE pc' = "done" /\ ret' = 0 /\ hist' = h

(***************************************************************************)
(* audit_send from its entry to the first sendto (lines 147-188).          *)
(***************************************************************************)
SendEntry(c) ==
    LET v == SendValidate(c.fd, c.size)
        h == NewHist(sequence)
    IN  IF v # 0
        THEN /\ sequence' = sequence
             /\ req' = NoReq
             /\ AfterSend(c, v, [h EXCEPT !.sendrc = v, !.sent = TRUE])
        ELSE \/ \* the copy overruns the frame: the process may die here
                /\ CopyOverflows(c.size, c.data)
                /\ pc' = "crashed"
                /\ hist' = h
                /\ ret' = 0
                /\ UNCHANGED <<sequence, req, rep>>
             \/ /\ sequence' = NextSequence(sequence)
                /\ req' = Frame(c.type, c.size, sequence', c.data, c.payload)
                /\ pc' = "sendto"
                /\ hist' = [h EXCEPT !.frame = req']
                /\ rep' = Uninit
                /\ ret' = 0

\* the behaviour ends when the last call has returned
LastCallOver == pc \in {"done", "crashed"} /\ ncalls = MaxCalls

CanCall == pc \in {"idle", "done"} /\ ncalls < MaxCalls

\* audit_send called directly
CallSend(fd, type, size, data) ==
    /\ CanCall
    /\ call' = [NoCall EXCEPT !.op = "audit_send", !.fd = fd, !.type = type,
                              !.size = size, !.data = data]
    /\ ncalls' = ncalls + 1
    /\ SendEntry(call')
    /\ UNCHANGED <<queue, urep, nqueued, kernel, thr>>

\* audit_set_pid, lines 223-240; the payload is status.pid and status.mask
CallSetPid(fd, pid, wmode) ==
    /\ CanCall
    /\ call' = [NoCall EXCEPT !.op = "audit_set_pid", !.fd = fd, !.pid = pid,
                              !.wmode = wmode, !.type = AUDIT_SET,
                              !.size = U32(0, SizeofStatus), !.data = TRUE,
                              !.payload = <<pid, AUDIT_STATUS_PID>>]
    /\ ncalls' = ncalls + 1
    /\ SendEntry(call')
    /\ UNCHANGED <<queue, urep, nqueued, kernel, thr>>

\* audit_set_logsplit, lines 333-349
CallSetLogsplit(fd, enabled, wmode) ==
    /\ CanCall
    /\ call' = [NoCall EXCEPT !.op = "audit_set_logsplit", !.fd = fd,
                              !.enabled = enabled, !.wmode = wmode,
                              !.type = AUDIT_LOGSPLIT_SET,
                              !.size = U32(0, SizeofLogsplitStatus), !.data = TRUE,
                              !.payload = <<enabled>>]
    /\ ncalls' = ncalls + 1
    /\ IF ~LogsplitValid(enabled)
       THEN /\ pc' = "done"
            /\ ret' = -EINVAL
            /\ hist' = NewHist(sequence)
            /\ req' = NoReq
            /\ rep' = Uninit
            /\ sequence' = sequence
       ELSE SendEntry(call')
    /\ UNCHANGED <<queue, urep, nqueued, kernel, thr>>

\* audit_get_reply called by the user, lines 269-283
CallGetReply(fd, block, peek) ==
    /\ CanCall
    /\ call' = [NoCall EXCEPT !.op = "audit_get_reply", !.fd = fd,
                              !.block = block, !.peek = peek]
    /\ ncalls' = ncalls + 1
    /\ hist' = [NewHist(sequence) EXCEPT !.grc = IF fd < 0 THEN -EBADF ELSE 0]
    /\ IF fd < 0
       THEN pc' = "done" /\ ret' = -EBADF
       ELSE pc' = "recv" /\ ret' = 0
    /\ req' = NoReq
    /\ rep' = Uninit
    /\ urep' = Uninit          \* the caller passes a struct it has not filled
    /\ UNCHANGED <<sequence, queue, nqueued, kernel, thr>>

(***************************************************************************)
(* One sendto of audit_send's loop (lines 191-195) and, when the loop      *)
(* ends, the code up to the next syscall or the return (lines 197-221,     *)
(* get_ack lines 103-107).                                                 *)
(***************************************************************************)
\* what sendto can return for a frame of len bytes: the byte count accepted,
\* or -1 with errno set
SendtoOutcomes(len) ==
    {[rc |-> n, errno |-> 0] : n \in {m \in {0, len.lo - 4, len.lo} : m >= 0}}
    \cup {[rc |-> -1, errno |-> e] : e \in OsErrors}

TxKind(o, len) ==
    IF o.rc < 0 THEN "oserr" ELSE IF ToU32(o.rc) = len THEN "full" ELSE "partial"

\* the send loop drawing a fresh number for the retry
SendtoInterrupted_DrawsAgain ==
    /\ pc = "sendto"
    /\ hist.eintr < MaxIntr
    /\ hist' = [hist EXCEPT !.eintr = @ + 1]
    /\ sequence' = NextSequence(sequence)
    /\ req' = [req EXCEPT !.seq = ToU32(sequence')]
    /\ UNCHANGED <<queue, pc, call, rep, urep, ret, ncalls, nqueued, kernel, thr>>

SendtoInterrupted ==
    /\ pc = "sendto"
    /\ hist.eintr < MaxIntr
    /\ hist' = [hist EXCEPT !.eintr = @ + 1]
    /\ UNCHANGED <<sequence, queue, pc, call, req, rep, urep, ret, ncalls, nqueued, kernel, thr>>

SendtoStep ==
    /\ pc = "sendto"
    /\ \E o \in SendtoOutcomes(req.len) :
        LET r == SendResult(o.rc, o.errno, req.len)
            h == [hist EXCEPT !.sendto = @ + 1, !.tx = TxKind(o, req.len),
                              !.txerrno = o.errno]
        IN  IF r # 0
            THEN /\ sequence' = RollOver(sequence)
                 /\ AfterSend(call, r, [h EXCEPT !.sendrc = r, !.sent = TRUE])
            ELSE IF call.fd < 0      \* get_ack's own check of fd
            THEN /\ sequence' = RollOver(sequence)
                 /\ AfterSend(call, -EINVAL,
                        [h EXCEPT !.ack = "done", !.ackrc = -EINVAL,
                                  !.sendrc = -EINVAL, !.sent = TRUE])
            ELSE /\ pc' = "ack_peek"
                 /\ hist' = [h EXCEPT !.ack = "peek"]
                 /\ rep' = Uninit
                 /\ UNCHANGED <<sequence, ret>>
    /\ UNCHANGED <<queue, call, req, urep, ncalls, nqueued, thr>>

\* sendto on a socket whose peer may queue anything at any time
Sendto == SendtoStep /\ UNCHANGED kernel

\* sendto on a socket whose peer is the audit kernel: a frame sent whole is
\* a request the kernel has received
Transmit ==
    /\ SendtoStep
    /\ kernel' = IF hist'.tx = "full"
                 THEN [kernel EXCEPT !.reqs = Append(@, [seq |-> req.seq, by |-> 0,
                                                         alone |-> TRUE])]
                 ELSE kernel

(***************************************************************************)
(* One recvfrom of audit_get_reply's loop (lines 290-308) and, when the    *)
(* loop ends, the code up to the next syscall or the return: the rest of   *)
(* audit_get_reply (lines 310-321), then its caller (get_ack lines         *)
(* 108-124 and audit_send lines 211-220, or the control call's return).    *)
(***************************************************************************)
\* the consuming receive of get_ack (line 113) never returning
Receiving_ConsumeHangs == pc \in {"ack_peek", "drain", "recv"}

Receiving == pc \in {"ack_peek", "ack_consume", "drain", "recv"}

\* the (block, peek) arguments of the audit_get_reply in progress
BlockArg ==
    IF pc = "recv" THEN call.block
    ELSE IF pc = "drain" THEN GET_REPLY_NONBLOCKING
    ELSE GET_REPLY_BLOCKING

\* get_ack's first receive made without MSG_PEEK
PeekArg_AckNeverPeeks ==
    IF pc = "recv" THEN call.peek ELSE 0

PeekArg ==
    IF pc = "recv" THEN call.peek
    ELSE IF pc = "ack_peek" THEN MSG_PEEK
    ELSE 0

CurRep == IF pc = "recv" THEN urep ELSE rep

\* errno values a failing recvfrom can set, EINTR apart: EAGAIN only when
\* nothing is queued and MSG_DONTWAIT is set
RecvErrnos ==
    OsErrors \cup (IF queue = <<>> /\ DontWait(BlockArg) THEN {EAGAIN} ELSE {})

\* every errno but EINTR returned as an error
RecvError_EagainIsError(block, errno) == -errno

\* lines 298-305: the return value for a failed recvfrom
RecvError(block, errno) ==
    IF block = GET_REPLY_NONBLOCKING /\ errno = EAGAIN THEN 0 ELSE -errno

\* get_ack returns ackrc to audit_send, which returns (lines 211-220)
FinishAck(ackrc, h, warn) ==
    LET rc == SendReturn(ackrc, sequence)
    IN  /\ sequence' = RollOver(sequence)
        /\ AfterSend(call, rc, [h EXCEPT !.ack = "done", !.ackrc = ackrc,
                                         !.ackdeq = h.deq, !.sendrc = rc, !.sent = TRUE,
                                         !.warned = warn])

\* audit_get_reply returned grc having left the reply as r
GotReply(grc, r, h) ==
    IF pc = "recv"
    THEN /\ pc' = "done"
         /\ ret' = grc
         /\ urep' = r
         /\ hist' = h
         /\ UNCHANGED <<sequence, rep>>
    ELSE IF pc = "drain"
    THEN /\ pc' = "done"
         /\ ret' = 0
         /\ rep' = Uninit
         /\ hist' = h
         /\ UNCHANGED <<sequence, urep>>
    ELSE IF pc = "ack_peek"
    THEN /\ urep' = urep
         /\ IF grc < 0
            THEN FinishAck(grc, h, FALSE)
            ELSE IF r.type = NLMSG_ERROR
            THEN /\ pc' = "ack_consume"
                 /\ rep' = r
                 /\ hist' = h
                 /\ UNCHANGED <<sequence, ret>>
            ELSE FinishAck(0, h, SeqSkew(r, sequence))
    ELSE \* ack_consume: the return value of this receive is not looked at
         /\ urep' = urep
         /\ IF AckError(r) # 0
            THEN FinishAck(AckError(r), h, FALSE)
            ELSE FinishAck(0, h, SeqSkew(r, sequence))

\* the receive loop ending on EINTR as on any other errno
RecvInterrupted_ReturnsEintr ==
    /\ Receiving
    /\ hist.eintr < MaxIntr
    /\ GotReply(-EINTR, CurRep, [hist EXCEPT !.eintr = @ + 1, !.grc = -EINTR])
    /\ UNCHANGED <<queue, call, req, ncalls, nqueued, kernel, thr>>

RecvInterrupted ==
    /\ Receiving
    /\ hist.eintr < MaxIntr
    /\ hist' =[hist EXCEPT !.eintr = @ + 1]
    /\ UNCHANGED <<sequence, queue, pc, call, req, rep, urep, ret, ncalls, nqueued, kernel, thr>>

RecvFails ==
    /\ Receiving
    /\ \E e \in RecvErrnos :
        LET grc == RecvError(BlockArg, e)
        IN  GotReply(grc, CurRep,
                     [hist EXCEPT !.recvfrom = @ + 1, !.got = NoMsg, !.grc = grc,
                                  !.eagain = (e = EAGAIN)])
    /\ UNCHANGED <<queue, call, req, ncalls, nqueued, kernel, thr>>

RecvDatagram ==
    /\ Receiving
    /\ queue # <<>>
    /\ LET d == Head(queue)
           res == GetReplyChecks(CurRep, d)
           h == [hist EXCEPT !.recvfrom = @ + 1, !.got = d, !.grc = res.rc,
                             !.eagain = FALSE,
                             !.deq = IF Peeks(PeekArg) THEN @ ELSE @ + 1,
                             !.peeked = IF pc = "ack_peek" THEN d ELSE @]
       IN  /\ queue' = IF Peeks(PeekArg) THEN queue ELSE Tail(queue)
           /\ GotReply(res.rc, res.rep, h)
    /\ UNCHANGED <<call, req, ncalls, nqueued, kernel, thr>>

(***************************************************************************)
(* The kernel, or another netlink sender, queues a datagram on the socket. *)
(***************************************************************************)
KernelQueue(d) ==
    /\ nqueued < MaxDgrams
    /\ ~LastCallOver
    /\ queue' = Append(queue, d)
    /\ nqueued' = nqueued + 1
    /\ UNCHANGED <<sequence, pc, call, req, rep, urep, ret, ncalls, hist, kernel, thr>>

Next ==
    \/ \E a \in SendArgs, t \in SendTypes : CallSend(a[1], t, a[2], a[3])
    \/ \E a \in SetPidArgs : CallSetPid(a[1], a[2], a[3])
    \/ \E a \in LogsplitArgs : CallSetLogsplit(a[1], a[2], a[3])
    \/ \E a \in GetReplyArgs : CallGetReply(a[1], a[2], a[3])
    \/ SendtoInterrupted
    \/ Sendto
    \/ RecvInterrupted
    \/ RecvFails
    \/ RecvDatagram
    \/ \E d \in CoreDatagrams : KernelQueue(d)

Spec == Init /\ [][Next]_vars

(***************************************************************************)
(* The receive interface alone: the user calls audit_get_reply in every    *)
(* mode while datagrams of every kind are queued.                          *)
(***************************************************************************)
NextRecv ==
    \/ \E a \in GetReplyArgs : CallGetReply(a[1], a[2], a[3])
    \/ RecvInterrupted
    \/ RecvFails
    \/ RecvDatagram
    \/ \E d \in Datagrams : KernelQueue(d)

SpecRecv == Init /\ [][NextRecv]_vars

(***************************************************************************)
(* Sends and receives on a socket where datagrams that audit_get_reply     *)
(* rejects are queued: from another sender, with an address of another     *)
(* size, and malformed ones from the kernel address; and an ack in order.  *)
(***************************************************************************)
RejectedDatagrams == Malformed \cup Spoofed \cup BadAddr

NextRejected ==
    \/ \E t \in SendTypes : CallSend(3, t, U32(0, SizeofStatus), TRUE)
    \/ \E w \in WaitModes : CallSetPid(3, 1234, w)
    \/ \E pk \in {0, MSG_PEEK} : CallGetReply(3, GET_REPLY_NONBLOCKING, pk)
    \/ SendtoInterrupted
    \/ Sendto
    \/ RecvInterrupted
    \/ RecvFails
    \/ RecvDatagram
    \/ \E d \in RejectedDatagrams \cup Acks : KernelQueue(d)

SpecRejected == Init /\ [][NextRejected]_vars

(***************************************************************************)
(* A single writer facing the audit kernel: the kernel queues one ack for  *)
(* every request it has received, in the order it received them, and       *)
(* asynchronous events in between.                                         *)
(***************************************************************************)
\* the ack netlink_ack builds for request r with code e: it echoes the
\* request's nlmsg_seq, kept here by its low half, the one get_ack reads
AckFor(r, e) ==
    Dgram(0, SizeofNladdr, AckLen, AckLen, NLMSG_ERROR, r.seq.lo, e)

\* audit records the kernel sends on its own
AsyncEvents == {Dgram(0, SizeofNladdr, 48, 48, AUDIT_FIRST_USER_MSG, 0, 0)}

KernelAck ==
    /\ kernel.acked < Len(kernel.reqs)
    /\ \E e \in {0, -EACCES} :
         queue' = Append(queue, AckFor(kernel.reqs[kernel.acked + 1], e))
    /\ kernel' = [kernel EXCEPT !.acked = @ + 1]
    /\ UNCHANGED <<sequence, pc, call, req, rep, urep, ret, ncalls, nqueued, hist, thr>>

NextKernel ==
    \/ \E w \in WaitModes : CallSetPid(3, 1234, w)
    \/ \E t \in SendTypes : CallSend(3, t, U32(0, SizeofStatus), TRUE)
    \/ SendtoInterrupted
    \/ Transmit
    \/ RecvInterrupted
    \/ RecvFails
    \/ RecvDatagram
    \/ KernelAck
    \/ \E d \in AsyncEvents : KernelQueue(d)

SpecKernel == Init /\ [][NextKernel]_vars

(***************************************************************************)
(* Several threads in audit_send on one socket, facing the audit kernel.   *)
(* The counter is a static variable that the threads read and write        *)
(* without synchronisation: every access to it (the load and the store of  *)
(* ++sequence on line 188, the reads of lines 208 and 211, the test and    *)
(* reset of lines 215-218) is a step of its own, and so is every syscall.  *)
(* The calls are audit_send(fd, type, NULL, 0) with a valid fd; a syscall  *)
(* that ends on EINTR is retried and changes nothing, so it is no step.    *)
(***************************************************************************)
InSend(u) == thr[u].pc \notin {"idle", "done"}

\* lines 147-170: the frame is set up and the arguments pass
ThreadCall(t) ==
    /\ ~InSend(t)
    /\ ncalls < MaxCalls
    /\ ncalls' = ncalls + 1
    /\ thr' = [u \in Threads |->
                IF u = t
                THEN [IdleThread EXCEPT
                        !.pc = "load",
                        !.alone = \A v \in Threads \ {t} : ~InSend(v)]
                ELSE [thr[u] EXCEPT !.alone = @ /\ ~InSend(u)]]
    /\ UNCHANGED <<sequence, queue, pc, call, req, rep, urep, ret, nqueued, hist, kernel>>

\* line 188, ++sequence: the load
ThreadLoad(t) ==
    /\ thr[t].pc = "load"
    /\ thr' = [thr EXCEPT ![t].tmp = sequence, ![t].pc = "store"]
    /\ UNCHANGED <<sequence, queue, pc, call, req, rep, urep, ret, ncalls, nqueued,
                   hist, kernel>>

\* line 188, ++sequence: the store, and the assignment to nlmsg_seq
ThreadStore(t) ==
    /\ thr[t].pc = "store"
    /\ sequence' = NextSequence(thr[t].tmp)
    /\ thr' = [thr EXCEPT ![t].frame = ToU32(sequence'), ![t].pc = "sendto"]
    /\ UNCHANGED <<queue, pc, call, req, rep, urep, ret, ncalls, nqueued, hist, kernel>>

\* lines 191-205: the sendto that ends the loop
ThreadSendto(t) ==
    /\ thr[t].pc = "sendto"
    /\ \E o \in SendtoOutcomes(NLMSG_SPACE(U32(0, 0))) :
         LET r == SendResult(o.rc, o.errno, NLMSG_SPACE(U32(0, 0)))
         IN  IF r # 0
             THEN /\ thr' = [thr EXCEPT ![t].rc = r, ![t].pc = "out"]
                  /\ kernel' = kernel
             ELSE /\ thr' = [thr EXCEPT ![t].sent = TRUE, ![t].pc = "readseq"]
                  /\ kernel' = [kernel EXCEPT !.reqs =
                                    Append(@, [seq |-> thr[t].frame, by |-> t,
                                               alone |-> thr[t].alone])]
    /\ UNCHANGED <<sequence, queue, pc, call, req, rep, urep, ret, ncalls, nqueued, hist>>

\* line 208: the argument of get_ack is read from the counter
ThreadReadSeq(t) ==
    /\ thr[t].pc = "readseq"
    /\ thr' = [thr EXCEPT ![t].arg = sequence, ![t].pc = "peek"]
    /\ UNCHANGED <<sequence, queue, pc, call, req, rep, urep, ret, ncalls, nqueued,
                   hist, kernel>>

\* get_ack line 107 to its return or to line 113
ThreadPeek(t) ==
    /\ thr[t].pc = "peek"
    /\ \/ /\ queue # <<>>
          /\ LET res == GetReplyChecks(Uninit, Head(queue))
             IN  thr' = [thr EXCEPT
                    ![t].msg = res.rep.msg,
                    ![t].ackrc = IF res.rc < 0 THEN res.rc ELSE 0,
                    ![t].warned = res.rc = 0 /\ res.rep.type # NLMSG_ERROR
                                  /\ SeqSkew(res.rep, thr[t].arg),
                    ![t].pc = IF res.rc = 0 /\ res.rep.type = NLMSG_ERROR
                              THEN "consume" ELSE "retval"]
       \/ \E e \in OsErrors :
            thr' = [thr EXCEPT ![t].ackrc = RecvError(GET_REPLY_BLOCKING, e),
                               ![t].pc = "retval"]
    /\ UNCHANGED <<sequence, queue, pc, call, req, rep, urep, ret, ncalls, nqueued,
                   hist, kernel>>

\* get_ack lines 113-124: the receive that removes the datagram at the head
\* of the queue, whichever it is by now; its return value is not looked at
ThreadConsume(t) ==
    /\ thr[t].pc = "consume"
    /\ \/ /\ queue # <<>>
          /\ queue' = Tail(queue)
          /\ LET res == GetReplyChecks(Uninit, Head(queue))
             IN  thr' = [thr EXCEPT
                    ![t].msg = res.rep.msg,
                    ![t].took = kernel.acked - Len(queue) + 1,
                    ![t].ackrc = AckError(res.rep),
                    ![t].warned = AckError(res.rep) = 0 /\ SeqSkew(res.rep, thr[t].arg),
                    ![t].pc = "retval"]
       \/ /\ \E e \in OsErrors :
               LET r == [msg |-> thr[t].msg]
               IN  thr' = [thr EXCEPT
                      ![t].ackrc = AckError(r),
                      ![t].warned = AckError(r) = 0 /\ SeqSkew(r, thr[t].arg),
                      ![t].pc = "retval"]
          /\ queue' = queue
    /\ UNCHANGED <<sequence, pc, call, req, rep, urep, ret, ncalls, nqueued, hist, kernel>>

\* line 211: the counter is read again for the return value
ThreadReturn(t) ==
    /\ thr[t].pc = "retval"
    /\ thr' = [thr EXCEPT ![t].rc = SendReturn(thr[t].ackrc, sequence), ![t].pc = "out"]
    /\ UNCHANGED <<sequence, queue, pc, call, req, rep, urep, ret, ncalls, nqueued,
                   hist, kernel>>

\* lines 213-220
ThreadOut(t) ==
    /\ thr[t].pc = "out"
    /\ sequence' = RollOver(sequence)
    /\ thr' = [thr EXCEPT ![t].pc = "done"]
    /\ UNCHANGED <<queue, pc, call, req, rep, urep, ret, ncalls, nqueued, hist, kernel>>

NextThreads ==
    \/ \E t \in Threads : ThreadCall(t)
    \/ \E t \in Threads : ThreadLoad(t)
    \/ \E t \in Threads : ThreadStore(t)
    \/ \E t \in Threads : ThreadSendto(t)
    \/ \E t \in Threads : ThreadReadSeq(t)
    \/ \E t \in Threads : ThreadPeek(t)
    \/ \E t \in Threads : ThreadConsume(t)
    \/ \E t \in Threads : ThreadReturn(t)
    \/ \E t \in Threads : ThreadOut(t)
    \/ KernelAck

SpecThreads == InitThreads /\ [][NextThreads]_vars

(***************************************************************************)
(* The same calls and the user's blocking audit_get_reply, with the        *)
(* assumptions under which a blocked syscall returns: sendto returns; a    *)
(* recvfrom returns the datagram at the head of the queue when there is    *)
(* one; and the kernel queues the ack it owes or the socket reports an     *)
(* error.  Nothing is assumed of EINTR results, of which a call gets       *)
(* finitely many.                                                          *)
(***************************************************************************)
NextLive ==
    \/ NextKernel
    \/ \E pk \in {0, MSG_PEEK} : CallGetReply(3, GET_REPLY_BLOCKING, pk)

SpecLive ==
    /\ Init
    /\ [][NextLive]_vars
    /\ WF_vars(Transmit)
    /\ WF_vars(RecvDatagram)
    /\ WF_vars(KernelAck \/ RecvFails)

\* the assumptions on sendto and on recvfrom with a datagram queued, alone
SpecSilent ==
    /\ Init
    /\ [][NextLive]_vars
    /\ WF_vars(Transmit)
    /\ WF_vars(RecvDatagram)

(***************************************************************************)
(* Vocabulary of the properties.                                           *)
(***************************************************************************)
Returned == pc = "done"
UsesSend == call.op \in {"audit_send", "audit_set_pid", "audit_set_logsplit"}

\* audit_send ran to its return statement in the current call
SendReturned == UsesSend /\ hist.sent

\* the datagram get_ack peeked is an error-type reply from the kernel that
\* holds a whole struct nlmsgerr, so it carries a code
PeekedAck ==
    /\ hist.peeked # NoMsg
    /\ hist.peeked.pid = 0
    /\ hist.peeked.alen = SizeofNladdr
    /\ hist.peeked.type = NLMSG_ERROR
    /\ hist.peeked.nlen >= NLMSG_HDRLEN + 4
    /\ hist.peeked.nlen <= hist.peeked.len

\* what the caller of the current call sees as success
ReportsSuccess ==
    IF call.op = "audit_send" THEN ret > 0 ELSE ret = 0

\* a failure that carries the kernel's code c, whichever sign it is given
ReportsKernelError(c) == ret < 0 /\ (ret = c \/ ret = -c)

\* the framed size of a payload of `size` bytes exceeds the maximum message
\* length, in unbounded arithmetic: align4(size + 16) > 8970
Oversize(size) ==
    \/ size.hi > 0
    \/ ((size.lo + NLMSG_HDRLEN + 3) \div 4) * 4 > MAX_AUDIT_MESSAGE_LENGTH

\* the error codes of a rejected argument: -EINVAL, and -EBADF for the handle
InvalidArgument(v) == v \in {-EINVAL, -EBADF}

\* the current call made no syscall and left the counter alone
TouchedNothing ==
    /\ sequence = hist.seq0
    /\ hist.sendto = 0
    /\ hist.recvfrom = 0
    /\ hist.eintr = 0
    /\ hist.deq = 0
    /\ hist.tx = "none"
    /\ hist.got = NoMsg

(***************************************************************************)
(* C1.  After a full transmission, an error-type ack with code 0 makes     *)
(* audit_send and audit_set_pid report success, and an ack with a nonzero  *)
(* code c makes them report a failure carrying c; a nonzero code is never  *)
(* reported as success.                                                    *)
(***************************************************************************)
C1_AckCodeDecidesResult ==
    (/\ Returned
     /\ call.op \in {"audit_send", "audit_set_pid"}
     /\ hist.tx = "full"
     /\ PeekedAck)
    => /\ hist.peeked.err = 0 => ReportsSuccess
       /\ hist.peeked.err # 0 => ReportsKernelError(hist.peeked.err)

(***************************************************************************)
(* C2.  Every audit_send that passes validation puts the counter's value   *)
(* plus one in its frame: never a negative number, and 0 when the counter  *)
(* held 32767; the counter then holds the number issued.                   *)
(***************************************************************************)
C2_SequenceNumbers ==
    (UsesSend /\ hist.frame # NoReq)
    => /\ hist.frame.seq =
            IF hist.seq0 = 32767 THEN U32(0, 0) ELSE U32(0, hist.seq0 + 1)
       /\ U32ToInt16(hist.frame.seq) >= 0
       /\ Returned => ToU32(sequence) = hist.frame.seq

(***************************************************************************)
(* C3.  When the send loop ends on a byte count other than the frame       *)
(* length audit_send returns -EPROTO; when it ends on an OS error other    *)
(* than EINTR audit_send returns that error, not -EPROTO; in both cases no *)
(* ack wait is made.                                                       *)
(***************************************************************************)
C3_TransportFailure ==
    SendReturned
    => /\ hist.tx = "partial" => hist.sendrc = -EPROTO
       /\ hist.tx = "oserr" => hist.sendrc = -(hist.txerrno)
       /\ hist.tx \in {"partial", "oserr"} => hist.ack = "none" /\ hist.recvfrom = 0

(***************************************************************************)
(* C4.  audit_send with a negative handle, or with a payload size whose    *)
(* framed size exceeds the maximum message length, returns the invalid     *)
(* argument error, with the counter unchanged, nothing sent and nothing    *)
(* received or dequeued.                                                   *)
(***************************************************************************)
C4_InvalidSendTouchesNothing ==
    (call.op = "audit_send" /\ (call.fd < 0 \/ Oversize(call.size)))
    => /\ Returned
       /\ InvalidArgument(ret)
       /\ TouchedNothing

(***************************************************************************)
(* C5.  audit_send returns a strictly positive number exactly when the     *)
(* frame was fully transmitted and get_ack accepted it, and a negative     *)
(* number on every failure.                                                *)
(***************************************************************************)
AckAccepted == hist.tx = "full" /\ hist.ack = "done" /\ hist.ackrc = 0

C5_ReturnSign ==
    SendReturned
    => IF AckAccepted THEN hist.sendrc > 0 ELSE hist.sendrc < 0

(***************************************************************************)
(* C6.  audit_set_logsplit with an enabled value other than                *)
(* AUDIT_LOGSPLIT_OFF and AUDIT_LOGSPLIT_ON returns -EINVAL at once: no    *)
(* syscall is made, nothing is dequeued and the counter is not advanced,   *)
(* for every handle and wait mode.                                         *)
(***************************************************************************)
InvalidLogsplitCall ==
    /\ call.op = "audit_set_logsplit"
    /\ call.enabled \notin {AUDIT_LOGSPLIT_OFF, AUDIT_LOGSPLIT_ON}

C6_InvalidLogsplitRejected ==
    InvalidLogsplitCall
    => /\ Returned
       /\ ret = -EINVAL
       /\ TouchedNothing
       /\ hist.frame = NoReq
       /\ hist.drains = 0

\* an invalid value, a valid handle, a wait mode that asks for the drain and
\* a datagram waiting on the socket
C6_Witness ==
    /\ InvalidLogsplitCall
    /\ Returned
    /\ call.fd >= 0
    /\ call.wmode = WAIT_YES
    /\ queue # <<>>

(***************************************************************************)
(* C7.  audit_get_reply returns an error for every datagram whose sender   *)
(* nl_pid is nonzero, whatever the datagram holds and whatever the         *)
(* blocking mode and peek flag; the reply is never decoded.                *)
(***************************************************************************)
UserReceive == call.op = "audit_get_reply"

C7_SpoofedRejected ==
    (hist.got # NoMsg /\ hist.got.pid # 0)
    => /\ hist.grc < 0
       /\ (Returned /\ UserReceive) => (ret < 0 /\ urep.view = "uninit")

\* a peeked, blocking receive of a well-formed ack sent by another process
C7_Witness ==
    /\ Returned
    /\ UserReceive
    /\ call.block = GET_REPLY_BLOCKING
    /\ call.peek = MSG_PEEK
    /\ hist.got # NoMsg
    /\ hist.got.pid # 0
    /\ hist.got.alen = SizeofNladdr
    /\ hist.got.type = NLMSG_ERROR
    /\ NLMSG_OK(hist.got.nlen, hist.got.len)

(***************************************************************************)
(* C8.  A non-blocking audit_get_reply that finds nothing queued returns 0 *)
(* and hands back an explicit empty reply.                                 *)
(***************************************************************************)
WouldBlockReturn ==
    /\ Returned
    /\ UserReceive
    /\ call.block = GET_REPLY_NONBLOCKING
    /\ hist.eagain

\* a reply the call has written to say "nothing": every field cleared
ExplicitEmpty(r) == r.view = "null" /\ r.type = 0 /\ r.len = 0

C8_ExplicitEmptyReply == WouldBlockReturn => (ret = 0 /\ ExplicitEmpty(urep))

(***************************************************************************)
(* C8, amended.  A non-blocking audit_get_reply that finds nothing queued  *)
(* returns 0, possibly after EINTR results, without an error, without      *)
(* removing a datagram, and without writing the caller's reply, which      *)
(* stays as it was passed.                                                 *)
(***************************************************************************)
C8_ReplyLeftUntouched ==
    WouldBlockReturn
    => /\ ret = 0
       /\ urep = Uninit
       /\ hist.got = NoMsg
       /\ hist.deq = 0

\* the would-block return after an interrupted recvfrom
C8_Witness == WouldBlockReturn /\ hist.eintr > 0 /\ hist.recvfrom = 1

(***************************************************************************)
(* C9.  For a datagram from the kernel address (nl_pid 0, address length   *)
(* right) whose byte count and nlmsg_len fail NLMSG_OK, audit_get_reply    *)
(* returns -EFBIG when the byte count equals the buffer size and -EBADE    *)
(* otherwise, and no view of the reply is set.                             *)
(***************************************************************************)
MalformedFromKernel(d) ==
    /\ d # NoMsg
    /\ d.pid = 0
    /\ d.alen = SizeofNladdr
    /\ ~NLMSG_OK(d.nlen, d.len)

C9_MalformedRejected ==
    MalformedFromKernel(hist.got)
    => /\ hist.grc = IF hist.got.len = SizeofRepMsg THEN -EFBIG ELSE -EBADE
       /\ (Returned /\ UserReceive) => (ret = hist.grc /\ urep.view = "null")

\* a datagram that filled the buffer and declares a longer frame
C9_Witness ==
    /\ Returned
    /\ UserReceive
    /\ MalformedFromKernel(hist.got)
    /\ hist.got.len = SizeofRepMsg
    /\ ret = -EFBIG

(***************************************************************************)
(* C10.  audit_set_pid and audit_set_logsplit return 0 exactly when        *)
(* get_ack accepted their send.  With a wait mode other than WAIT_NO they  *)
(* then make exactly one non-blocking audit_get_reply, which removes at    *)
(* most one datagram and does not change the result; with WAIT_NO they     *)
(* make none.                                                              *)
(***************************************************************************)
C10_ControlResult ==
    (Returned /\ call.op \in {"audit_set_pid", "audit_set_logsplit"})
    => /\ ret = 0 <=> AckAccepted
       /\ (AckAccepted /\ call.wmode # WAIT_NO)
            => (hist.drains = 1 /\ hist.deq - hist.ackdeq <= 1)
       /\ call.wmode = WAIT_NO => (hist.drains = 0 /\ hist.deq = hist.ackdeq)

(***************************************************************************)
(* C11.  A sendto or recvfrom that ends on EINTR is retried and never      *)
(* surfaced: no call returns an interrupt error, and the interrupted       *)
(* syscall changes nothing the program keeps (counter, frame, queue,       *)
(* replies, position, result), so a call with interrupts ends as the same  *)
(* call without them: same result, same one sequence number, same          *)
(* datagrams removed.                                                      *)
(***************************************************************************)
NoInterruptSurfaced ==
    /\ ret \notin {-EINTR, EINTR}
    /\ hist.sendrc \notin {-EINTR, EINTR}
    /\ hist.grc \notin {-EINTR, EINTR}
    /\ hist.ackrc \notin {-EINTR, EINTR}

InterruptChangesNothing ==
    hist'.eintr > hist.eintr
    => /\ hist' = [hist EXCEPT !.eintr = @ + 1]
       /\ UNCHANGED <<sequence, queue, pc, call, req, rep, urep, ret, ncalls, nqueued,
                      kernel, thr>>

C11_InterruptsAbsorbed == [](NoInterruptSurfaced) /\ [][InterruptChangesNothing]_vars

\* a send whose syscalls were interrupted, fully transmitted and acked,
\* that drew one number and removed the one ack
C11_Witness ==
    /\ SendReturned
    /\ Returned
    /\ hist.eintr = MaxIntr
    /\ AckAccepted
    /\ hist.ackdeq = 1
    /\ hist.seq0 = 0
    /\ sequence = 1
    /\ hist.sendrc = 1

(***************************************************************************)
(* C12.  Every audit_send that passes validation draws one number from the *)
(* counter: the counter is advanced once, before the send loop, whatever   *)
(* the loop's retries, the transmission and the ack wait then do; the      *)
(* number get_ack is given and compares the ack with, and the number       *)
(* audit_send returns when the ack is accepted, are the number in the      *)
(* frame.  (The counter holds the number drawn until the rollover reset at *)
(* the end of the call.)                                                   *)
(***************************************************************************)
\* the call in progress passed audit_send's validation
Validated == UsesSend /\ hist.frame # NoReq

C12_OneDrawPerSend ==
    Validated
    => LET drawn == NextSequence(hist.seq0)
       IN  /\ hist.frame.seq = ToU32(drawn)
           /\ req = hist.frame
           /\ sequence \in {drawn, RollOver(drawn)}
           /\ ~hist.sent => sequence = drawn
           /\ hist.sent => sequence = RollOver(drawn)
           /\ (hist.ack = "done" /\ hist.ackrc = 0 /\ hist.peeked # NoMsg)
                => hist.warned = (ToInt16(hist.peeked.seq) # U32ToInt16(hist.frame.seq))
           /\ (hist.sent /\ hist.ack = "done" /\ hist.ackrc = 0)
                => hist.sendrc = U32ToInt16(hist.frame.seq)

\* a validated send whose sendto was interrupted and then failed: one number
\* is gone all the same
C12_Witness ==
    /\ Validated
    /\ SendReturned
    /\ hist.eintr > 0
    /\ hist.tx = "oserr"
    /\ hist.seq0 = 0
    /\ sequence = 1
    /\ hist.frame.seq = U32(0, 1)

(***************************************************************************)
(* C13.  get_ack after a full transmission, with a datagram at the head of *)
(* the queue that audit_get_reply accepts: if it is an error-type reply    *)
(* get_ack removes exactly that datagram; if it is of another type get_ack *)
(* removes nothing and audit_send returns the number it drew, get_ack      *)
(* having reported success.                                                *)
(***************************************************************************)
\* get_ack has returned and its peek was handed a datagram that passes the
\* checks of audit_get_reply
AckPeekAccepted ==
    /\ UsesSend
    /\ hist.tx = "full"
    /\ hist.ack = "done"
    /\ hist.peeked # NoMsg
    /\ GetReplyChecks(Uninit, hist.peeked).rc = 0

C13_AckQueueEffect ==
    AckPeekAccepted
    => IF hist.peeked.type = NLMSG_ERROR
       THEN hist.ackdeq = 1
       ELSE /\ hist.ackdeq = 0
            /\ hist.ackrc = 0
            /\ hist.sendrc = U32ToInt16(hist.frame.seq)

(***************************************************************************)
(* C14.  The result of audit_send does not depend on the sequence number   *)
(* of the reply at the head of the queue.  Whatever the reply's type,      *)
(* sender and error code, get_ack returns the same value and makes the     *)
(* same receives for the reply as for its twin that differs from it only   *)
(* by carrying the number of the request; the call in progress has that    *)
(* return value and queue effect, and the number decides only whether the  *)
(* warning is logged.                                                      *)
(***************************************************************************)
\* the datagram d with the sequence number s of the request in its header
WithSeq(d, s) == [d EXCEPT !.seq = s % W16]

C14_SkewOnlyWarns ==
    (Validated /\ hist.tx = "full" /\ hist.ack = "done" /\ hist.peeked # NoMsg)
    => LET drawn == U32ToInt16(hist.frame.seq)
           o == AckOutcome(hist.peeked, drawn)
           m == AckOutcome(WithSeq(hist.peeked, drawn), drawn)
       IN  /\ o.rc = m.rc
           /\ o.consume = m.consume
           /\ ~m.warned
           /\ hist.ackrc = o.rc
           /\ hist.sendrc = SendReturn(m.rc, drawn)
           /\ hist.ackdeq <= 1
           /\ hist.ackdeq = 1 => m.consume
           /\ hist.warned = o.warned
           /\ o.warned => (o.rc = 0 /\ hist.peeked # WithSeq(hist.peeked, drawn))

\* an ack with another request's number is taken as this request's ack
C14_Witness ==
    /\ Validated
    /\ SendReturned
    /\ AckAccepted
    /\ hist.peeked.type = NLMSG_ERROR
    /\ hist.peeked.seq # hist.frame.seq.lo
    /\ hist.warned
    /\ hist.ackdeq = 1
    /\ hist.sendrc > 0

(***************************************************************************)
(* C15.  With one writer and a kernel that queues one ack per request, in  *)
(* the order of the requests, among asynchronous events: the ack that a    *)
(* send removes from the queue carries the sequence number of that send.   *)
(***************************************************************************)
\* get_ack has returned having removed a datagram
AckTaken == UsesSend /\ hist.ack = "done" /\ hist.ackdeq = 1

C15_OwnAckConsumed ==
    AckTaken => ToInt16(hist.peeked.seq) = U32ToInt16(hist.frame.seq)

(***************************************************************************)
(* C15, amended.  With one writer and such a kernel the acks are removed   *)
(* in the order of the requests: the k-th ack removed from the queue is    *)
(* the ack of the k-th request.  A send removes its own ack (and logs no   *)
(* warning) only when the acks of all earlier requests have been removed;  *)
(* when an earlier send left its ack queued (its ack wait ended on an      *)
(* event at the head of the queue or on a receive error) the later send    *)
(* takes that ack as its own: its result is the earlier ack's code, and    *)
(* the mismatch is logged as a warning only when that code is 0.           *)
(***************************************************************************)
\* acks the kernel queued that are no longer in the queue
AcksRemoved ==
    kernel.acked - Cardinality({i \in DOMAIN queue : queue[i].type = NLMSG_ERROR})

C15_AcksTakenInOrder ==
    (AckTaken /\ hist.deq = 1)
    => LET k == AcksRemoved
           n == Len(kernel.reqs)
       IN  /\ k \in 1..n
           /\ kernel.reqs[n].seq = hist.frame.seq
           /\ hist.peeked.seq = kernel.reqs[k].seq.lo
           /\ k = n => (C15_OwnAckConsumed /\ ~hist.warned)
           /\ k < n => /\ hist.ackrc = AckError([msg |-> hist.peeked])
                       /\ hist.ackrc = 0 => hist.warned

\* the second send takes the ack of the first, which the first left queued
\* behind an event
C15_Witness ==
    /\ AckTaken
    /\ hist.deq = 1
    /\ Len(kernel.reqs) = 2
    /\ AcksRemoved = 1
    /\ hist.peeked.seq # hist.frame.seq.lo
    /\ hist.warned
    /\ Returned
    /\ ReportsSuccess

(***************************************************************************)
(* C16.  Every call eventually returns, given finitely many EINTR results  *)
(* and a kernel that eventually queues a datagram or a socket that         *)
(* eventually reports an error.  There is no timeout: a call leaves a      *)
(* blocking receive (the ack wait's peek and consume, the user's blocking  *)
(* audit_get_reply) only by a recvfrom that returned a datagram or failed  *)
(* with an error other than EINTR, so without a datagram and without an    *)
(* error it stays there.                                                   *)
(***************************************************************************)
InCall == pc \in {"sendto", "ack_peek", "ack_consume", "drain", "recv"}

BlockedReceive ==
    pc \in {"ack_peek", "ack_consume"} \/ (pc = "recv" /\ ~DontWait(call.block))

\* a step that ends a blocking receive is a recvfrom that returned
LeavesOnlyOnRecvfrom ==
    (BlockedReceive /\ pc' # pc)
    => /\ hist'.recvfrom = hist.recvfrom + 1
       /\ \/ hist'.got # NoMsg /\ queue # <<>> /\ hist'.got = Head(queue)
          \/ hist'.got = NoMsg /\ hist'.grc < 0 /\ hist'.grc # -EINTR

C16_CallsReturn == (InCall ~> Returned) /\ [][LeavesOnlyOnRecvfrom]_vars

\* a send that was interrupted, waited for its ack and returned
C16_Witness ==
    /\ Returned
    /\ UsesSend
    /\ hist.eintr = MaxIntr
    /\ hist.tx = "full"
    /\ hist.ack = "done"
    /\ hist.ackdeq = 1
    /\ kernel.acked = 1
    /\ queue = <<>>

\* C16, the assumption dropped: every call returns even when the kernel
\* never replies and the socket never reports an error.  This does not hold
\* under SpecSilent, where a call that has transmitted its frame stays in
\* the ack wait for ever.
C16_ReturnsUnassisted == InCall ~> Returned

(***************************************************************************)
(* C17.  Two threads in audit_send without serialisation break the         *)
(* sequence assignment: some interleavings transmit two frames with the    *)
(* same sequence number, make a call wait on or return a number that is    *)
(* not the one in its frame, and make a call remove the ack of the other   *)
(* call's request (the witness is a state with all three).  The first two  *)
(* happen through the interleaving alone: a call that ran with no other    *)
(* thread in audit_send waits on and returns the number in its frame, and  *)
(* no two such calls transmit the same number.                             *)
(***************************************************************************)
\* two transmitted frames carry the same sequence number
SameNumberTwice ==
    \E i, j \in DOMAIN kernel.reqs : i < j /\ kernel.reqs[i].seq = kernel.reqs[j].seq

\* thread t gave get_ack, or returned, a number that is not in its frame
WaitsOnAnother(t) ==
    /\ thr[t].sent
    /\ thr[t].pc \in {"peek", "consume", "retval", "out", "done"}
    /\ thr[t].arg # U32ToInt16(thr[t].frame)

ReturnsAnother(t) ==
    /\ thr[t].sent
    /\ thr[t].pc \in {"out", "done"}
    /\ thr[t].ackrc = 0
    /\ thr[t].rc # U32ToInt16(thr[t].frame)

\* thread t removed the ack of a request another thread sent
TookOthersAck(t) ==
    /\ thr[t].took # 0
    /\ kernel.reqs[thr[t].took].by # t

C17_AloneIsSound ==
    /\ \A t \in Threads :
         thr[t].alone => (~WaitsOnAnother(t) /\ ~ReturnsAnother(t))
    /\ \A i, j \in DOMAIN kernel.reqs :
         (i < j /\ kernel.reqs[i].seq = kernel.reqs[j].seq)
            => ~(kernel.reqs[i].alone /\ kernel.reqs[j].alone)

C17_Witness ==
    /\ SameNumberTwice
    /\ \E t \in Threads : WaitsOnAnother(t) /\ ReturnsAnother(t)
    /\ \E t \in Threads : TookOthersAck(t)

(***************************************************************************)
(* C18.  Every frame audit_send hands to sendto has nlmsg_len equal to the *)
(* aligned size of header plus payload, which is at most the maximum       *)
(* message length; the type asked for; the flags NLM_F_REQUEST|NLM_F_ACK   *)
(* and nothing else; and the sequence number drawn for the call.  The      *)
(* frame of audit_set_pid has type AUDIT_SET and the payload               *)
(* {pid, AUDIT_STATUS_PID}.                                                *)
(***************************************************************************)
\* align4(size + 16) for a payload size whose framed size fits the limit
AlignedSize(size) == U32(0, ((size.lo + NLMSG_HDRLEN + 3) \div 4) * 4)

C18_FrameWellFormed ==
    Validated
    => /\ ~Oversize(call.size)
       /\ hist.frame.len = AlignedSize(call.size)
       /\ ~U32Gt(hist.frame.len, MAX_AUDIT_MESSAGE_LENGTH)
       /\ hist.frame.type = call.type
       /\ hist.frame.flags = NLM_F_REQUEST + NLM_F_ACK
       /\ hist.frame.seq = ToU32(NextSequence(hist.seq0))
       /\ call.op = "audit_set_pid"
            => /\ hist.frame.type = AUDIT_SET
               /\ hist.frame.data = <<call.pid, AUDIT_STATUS_PID>>

(***************************************************************************)
(* C19.  When the peek of the ack wait returns a datagram that             *)
(* audit_get_reply rejects (sender nl_pid not 0, address of another size,  *)
(* or malformed frame), audit_send returns that error, having drawn one    *)
(* number and transmitted one frame, and the datagram is still at the head *)
(* of the queue.  This holds of every send, so every later send meets the  *)
(* same datagram and fails the same way, as long as it stays there: the    *)
(* head of the queue is removed only by a receive without MSG_PEEK, which  *)
(* removes it also when it rejects it.                                     *)
(***************************************************************************)
\* the return value of audit_get_reply for datagram d
ReplyCode(d) == GetReplyChecks(Uninit, d).rc

\* get_ack's peek returned a datagram that audit_get_reply rejects
PeekRejected ==
    /\ UsesSend
    /\ hist.ack = "done"
    /\ hist.peeked # NoMsg
    /\ ReplyCode(hist.peeked) < 0

RejectedStaysAtHead ==
    PeekRejected
    => /\ hist.sendrc = ReplyCode(hist.peeked)
       /\ Returned
       /\ ret = ReplyCode(hist.peeked)
       /\ hist.sendto = 1
       /\ hist.tx = "full"
       /\ sequence = RollOver(NextSequence(hist.seq0))
       /\ hist.deq = 0
       /\ queue # <<>>
       /\ Head(queue) = hist.peeked

\* a receive without MSG_PEEK that returned a datagram removed it, accepted
\* or not
NonPeekRemoves ==
    (UserReceive /\ Returned /\ hist.got # NoMsg)
    => /\ ret = ReplyCode(hist.got)
       /\ hist.deq = IF Peeks(call.peek) THEN 0 ELSE 1

\* the head of the queue changes only by a receive without MSG_PEEK
HeadRemovedByReceive ==
    (queue # <<>> /\ (queue' = <<>> \/ Head(queue') # Head(queue)))
    => /\ queue' = Tail(queue)
       /\ hist'.deq = hist.deq + 1
       /\ hist'.got = Head(queue)
       /\ ~Peeks(PeekArg)

C19_RejectedHeadBlocksSends ==
    [](RejectedStaysAtHead /\ NonPeekRemoves) /\ [][HeadRemovedByReceive]_vars

\* the second call, a send, fails on the datagram that was queued before
\* the first call made its receive and that is still the only one queued
C19_Witness ==
    /\ PeekRejected
    /\ Returned
    /\ ncalls = 2
    /\ nqueued = 1
    /\ hist.peeked.pid = 0
    /\ hist.peeked.alen = SizeofNladdr
    /\ ret = -EBADE
    /\ sequence = 2

(***************************************************************************)
(* C20.  Whenever no audit_send is running (before a call, and after       *)
(* audit_send has returned, whether it failed validation, failed to        *)
(* transmit, got an ack error or succeeded) the counter is in 0..32767.    *)
(* A negative value is stored only while audit_send runs, in the call that *)
(* found the counter at 32767, and that call leaves 0 behind.              *)
(***************************************************************************)
\* audit_send is not running
SendBoundary == pc \in {"idle", "done"} \/ hist.sent

C20_CounterInRange ==
    /\ SendBoundary => (sequence >= 0 /\ sequence <= 32767)
    /\ sequence < 0
         => /\ pc \in {"sendto", "ack_peek", "ack_consume"}
            /\ hist.seq0 = 32767
            /\ sequence = -32768
    /\ (Validated /\ hist.sent /\ hist.seq0 = 32767) => sequence = 0

\* the call that drew -32768 failed to transmit and left 0 behind
C20_Witness ==
    /\ Validated
    /\ SendReturned
    /\ Returned
    /\ hist.seq0 = 32767
    /\ hist.frame.seq = ToU32(-32768)
    /\ hist.tx = "partial"
    /\ sequence = 0

====
